---- MODULE Spec2Model ----
(***************************************************************************)
(* rp2040_flashtool: the serial flashing client of an RP2040 bootloader.    *)
(*                                                                         *)
(* The module models the command line sessions of cli.py (sync, info,      *)
(* read, erase, write, flash, boot) as one state machine over the frames   *)
(* written to the serial port, the byte-level response scan of send_cmd    *)
(* as a second one, and the loaders of util.py as operators.               *)
(*                                                                         *)
(* Addresses, lengths and descriptor fields are the program's own          *)
(* integers, drawn from small ranges; bytes are 0..255.                    *)
(***************************************************************************)
EXTENDS Integers, Sequences, FiniteSets, TLC

(***************************************************************************)
(* Bounds of the model.                                                    *)
(***************************************************************************)
MaxAddr == 7        \* --addr values are 0..MaxAddr
MaxLen == 4         \* --len values are 0..MaxLen
MaxImageLen == 3    \* a .bin file holds 0..MaxImageLen bytes
MaxDataLen == 2     \* the device reports max_data_len in 0..MaxDataLen
MaxFaults == 1      \* faults the transport injects in one session
MaxSpin == 3        \* chunks of size 0 in one session (max_data_len = 0:
                    \* the loops of read and write make no progress)
MaxArgLen == 1      \* send_cmd: args has 0..MaxArgLen bytes
MaxExtra == 1       \* send_cmd: bytes the device sends beyond total_len
MaxChunks == 2      \* load_elf: the merge is given 1..MaxChunks chunks,
MaxPaddr == 3       \*   at addresses 0..MaxPaddr,
MaxChunkLen == 3    \*   of 1..MaxChunkLen bytes
MaxPadLen == 9      \* pad_len: length is 0..MaxPadLen,
MaxAlign == 4       \*   align is 1..MaxAlign
MaxStr == 4         \* parse_integer: strings of 1..MaxStr characters
MaxInt == 2         \* parse_integer: an int argument is 0..MaxInt

\* cli.py:170 caps an ERAS chunk at 0xfffff000 = 2^32 - 0x1000, one sector
\* below the 32-bit size field.  TLC's integers stop at 2^31 - 1 and no
\* length of the model comes near either, so the cap is scaled with the
\* model's lengths: the longest erases of the model exceed it and take two
\* chunks, as an erase longer than 0xfffff000 does.
EraseChunkCap == 4

(***************************************************************************)
(* Program constants.                                                      *)
(***************************************************************************)
SyncAttempts == 5       \* cli.py:22
InfoAttempts == 3       \* cli.py:74
ChunkAttempts == 3      \* cli.py:116, 157, 217

(***************************************************************************)
(* Python values.                                                          *)
(***************************************************************************)
\* Optional[T]: None is the empty set, a value v is {v}.
None == {}
Some(v) == {v}
Optional(S) == {None} \cup {Some(v) : v \in S}
IsNone(o) == o = {}
Get(o) == CHOOSE v \in o : TRUE

Min(a, b) == IF a <= b THEN a ELSE b

\* data[a:b] for 0 <= a <= b (Python clips b to len(data)).
Slice(s, a, b) == SubSeq(s, a + 1, Min(b, Len(s)))

\* bytes(n): n zero bytes.
Zeros(n) == [k \in 1..n |-> 0]

RECURSIVE BitAnd(_, _)
\* a & b for a, b >= 0.
BitAnd(a, b) ==
    IF a = 0 \/ b = 0 THEN 0
    ELSE (a % 2) * (b % 2) + 2 * BitAnd(a \div 2, b \div 2)

(***************************************************************************)
(* zlib.crc32: the reflected CRC-32 (polynomial 0xEDB88320, initial value  *)
(* and final xor 0xFFFFFFFF), byte by byte over its 256-entry table.  The  *)
(* register is a sequence of 32 bits, least significant first, since TLC's *)
(* integers are signed 32-bit; the result is the 4 bytes of                *)
(* crc.to_bytes(length=4, byteorder="little").                             *)
(***************************************************************************)
\* 0xEDB88320, least significant bit first.
CrcPoly ==
    << 0,0,0,0,0,1,0,0,  1,1,0,0,0,0,0,1,  0,0,0,1,1,1,0,1,  1,0,1,1,0,1,1,1 >>

Xor(a, b) == (a + b) % 2
XorBits(r, p) == [k \in 1..32 |-> Xor(r[k], p[k])]
\* r >> n
ShiftRight(r, n) == [k \in 1..32 |-> IF k + n <= 32 THEN r[k + n] ELSE 0]

RECURSIVE WordBits(_, _)
\* the low n bits of b, least significant first
WordBits(b, n) == IF n = 0 THEN << >> ELSE << b % 2 >> \o WordBits(b \div 2, n - 1)

RECURSIVE BitsValue(_)
BitsValue(bits) ==
    IF bits = << >> THEN 0 ELSE Head(bits) + 2 * BitsValue(Tail(bits))

RECURSIVE CrcShift(_, _)
\* n steps of the bitwise division
CrcShift(r, n) ==
    IF n = 0 THEN r
    ELSE CrcShift(IF r[1] = 1 THEN XorBits(ShiftRight(r, 1), CrcPoly)
                  ELSE ShiftRight(r, 1), n - 1)

CrcTable == [b \in 0..255 |-> CrcShift(WordBits(b, 32), 8)]

\* crc = table[(crc ^ byte) & 0xff] ^ (crc >> 8)
CrcByte(r, b) ==
    LET bb == WordBits(b, 8)
        low == BitsValue([k \in 1..8 |-> Xor(r[k], bb[k])])
    IN XorBits(CrcTable[low], ShiftRight(r, 8))

RECURSIVE CrcReg(_, _)
CrcReg(r, s) == IF s = << >> THEN r ELSE CrcReg(CrcByte(r, Head(s)), Tail(s))

\* zlib.crc32(data).to_bytes(length=4, byteorder="little")
crc32(data) ==
    LET r == CrcReg([k \in 1..32 |-> 1], data)
        f == [k \in 1..32 |-> 1 - r[k]]
    IN [j \in 1..4 |-> BitsValue(SubSeq(f, 8 * (j - 1) + 1, 8 * j))]

(***************************************************************************)
(* util.py: the device descriptor.                                         *)
(***************************************************************************)
BlInfo(fs, fz, es, ez, ws, md) ==
    [flash_start |-> fs, flash_size |-> fz, erase_start |-> es,
     erase_size |-> ez, write_size |-> ws, max_data_len |-> md]

flash_end(bl) == bl.flash_start + bl.flash_size
sector_size(bl) == bl.erase_size

(***************************************************************************)
(* util.py: the image loader.                                              *)
(***************************************************************************)
_is_in_flash(addr, size, bl) ==
    addr >= bl.flash_start /\ addr + size <= flash_end(bl)

_is_in_header(vaddr, size, header) ==
    vaddr >= header.p_vaddr /\ vaddr + size <= header.p_vaddr + header.p_memsz

Chunk(paddr, data) == [paddr |-> paddr, data |-> data]

RECURSIVE SectionChunks(_, _)
\* the inner loop of load_elf: the chunks of one program header
SectionChunks(head, secs) ==
    IF secs = << >> THEN << >>
    ELSE LET sec == Head(secs)
             sec_size == Len(sec.data)
         IN (IF sec_size > 0 /\ _is_in_header(sec.sh_addr, sec_size, head)
             THEN << Chunk(head.p_paddr + (sec.sh_addr - head.p_vaddr), sec.data) >>
             ELSE << >>) \o SectionChunks(head, Tail(secs))

RECURSIVE CollectChunks(_, _, _)
\* the outer loop of load_elf: program headers outside the flash are skipped
CollectChunks(heads, secs, bl) ==
    IF heads = << >> THEN << >>
    ELSE LET head == Head(heads)
         IN (IF _is_in_flash(head.p_paddr, head.p_memsz, bl)
             THEN SectionChunks(head, secs)
             ELSE << >>) \o CollectChunks(Tail(heads), secs, bl)

RECURSIVE InsertChunk(_, _)
\* c placed after every chunk whose paddr is <= its own (list.sort is stable)
InsertChunk(sorted, c) ==
    IF sorted = << >> THEN << c >>
    ELSE IF Head(sorted).paddr <= c.paddr
         THEN << Head(sorted) >> \o InsertChunk(Tail(sorted), c)
         ELSE << c >> \o sorted

RECURSIVE SortChunks(_)
\* chunks.sort(key=lambda x: x.paddr)
SortChunks(chunks) ==
    IF chunks = << >> THEN << >>
    ELSE InsertChunk(SortChunks(SubSeq(chunks, 1, Len(chunks) - 1)),
                     chunks[Len(chunks)])

\* a slice assignment that cannot grow the buffer: C13 must tell the difference
SliceAssign_clip(img, start, end, d) ==
    [k \in 1..Len(img) |-> IF start < k /\ k <= end THEN d[k - start] ELSE img[k]]

\* img_data[start:end] = d on a bytearray, for 0 <= start <= end: the slice
\* is clipped to the buffer and replaced by d, so the buffer grows when the
\* slice runs past its end.
SliceAssign(img, start, end, d) ==
    LET s == Min(start, Len(img))
        e == IF Min(end, Len(img)) < s THEN s ELSE Min(end, Len(img))
    IN SubSeq(img, 1, s) \o d \o SubSeq(img, e + 1, Len(img))

RECURSIVE CopyChunks(_, _, _)
CopyChunks(img, chunks, min_addr) ==
    IF chunks = << >> THEN img
    ELSE LET c == Head(chunks)
             start == c.paddr - min_addr
         IN CopyChunks(SliceAssign(img, start, start + Len(c.data), c.data),
                       Tail(chunks), min_addr)

\* lines 92-101 of load_elf on a non-empty chunk list
MergeChunks(chunks) ==
    LET sorted == SortChunks(chunks)
        min_addr == sorted[1].paddr
        max_addr == sorted[Len(sorted)].paddr + Len(sorted[Len(sorted)].data)
    IN [addr |-> min_addr,
        data |-> CopyChunks(Zeros(max_addr - min_addr), sorted, min_addr)]

\* What a loader hands back: a value, exit(1), or an uncaught exception.
Loaded(addr, data) == [res |-> "ok", err |-> "", addr |-> addr, data |-> data]
LoadExit(why) == [res |-> "exit1", err |-> why, addr |-> None, data |-> << >>]
LoadRaise(exc) == [res |-> "crash", err |-> exc, addr |-> None, data |-> << >>]

load_elf(file, bl) ==
    LET chunks == CollectChunks(file.heads, file.secs, bl)
    IN IF chunks = << >> THEN LoadRaise("IndexError")
       ELSE LET m == MergeChunks(chunks) IN Loaded(Some(m.addr), m.data)

\* a padding that adds a whole unit to an aligned length: C14 must tell the
\* difference
pad_len_full(length, align) == align - (length % align)

\* defined for align >= 1; align = 0 raises ZeroDivisionError
pad_len(length, align) ==
    LET next_aligned == ((length + align - 1) \div align) * align
    IN next_aligned - length

load_file(file, bl, addr) ==
    LET got == IF file.kind = "elf" THEN load_elf(file, bl)
               ELSE IF file.kind = "bin"
                    THEN IF IsNone(addr) THEN LoadExit("MissingBaseAddress")
                         ELSE Loaded(addr, file.data)
                    ELSE LoadExit("UnsupportedImageFormat")
    IN IF got.res # "ok" THEN got
       ELSE IF bl.write_size = 0 THEN LoadRaise("ZeroDivisionError")
       ELSE Loaded(got.addr,
                   got.data \o Zeros(pad_len(Len(got.data), bl.write_size)))

(***************************************************************************)
(* The inputs of a session: the command line, the candidate ports and the  *)
(* device on the other end of the line.                                    *)
(***************************************************************************)
Commands == {"sync", "info", "read", "erase", "write", "flash", "boot"}

\* ports of sync (lines 23-26): [port] when --port is given, else the names
\* comports() lists, which may be none
PortLists == {<< >>, <<"p1">>, <<"p1", "p2">>}

\* what the device reports on INFO
Descriptors ==
    {BlInfo(fs, 4, fs, ez, ws, md) :
        fs \in {2}, ez \in 1..3, ws \in 1..2, md \in 0..MaxDataLen}

\* the bytes of the n-byte .bin file
Pattern(n) == [k \in 1..n |-> k]

NoFile == [kind |-> "none", data |-> << >>, heads |-> << >>, secs |-> << >>]
BinFile(d) == [kind |-> "bin", data |-> d, heads |-> << >>, secs |-> << >>]
ElfFile(hs, ss) == [kind |-> "elf", data |-> << >>, heads |-> hs, secs |-> ss]
ProgHead(pa, va, sz) == [p_paddr |-> pa, p_vaddr |-> va, p_memsz |-> sz]
Section(a, d) == [sh_addr |-> a, data |-> d]

Files ==
    {BinFile(Pattern(n)) : n \in 0..MaxImageLen}
    \cup {ElfFile(<< ProgHead(2, 0, 2) >>, << Section(0, <<7>>), Section(1, <<8>>) >>),
          ElfFile(<< ProgHead(8, 0, 2) >>, << Section(0, <<7>>) >>),
          [NoFile EXCEPT !.kind = "hex"]}

Args(a, l, f, b) == [addr |-> a, length |-> l, file |-> f, should_boot |-> b]

ArgsOf(c) ==
    CASE c \in {"sync", "info"} -> {Args(None, None, NoFile, FALSE)}
      [] c \in {"read", "erase"} ->
            {Args(a, l, NoFile, FALSE) :
                a \in Optional(0..MaxAddr), l \in Optional(0..MaxLen)}
      [] c = "write" -> {Args(a, None, f, FALSE) : a \in Optional(0..MaxAddr), f \in Files}
      [] c = "flash" ->
            {Args(a, None, f, b) :
                a \in Optional(0..MaxAddr), f \in Files, b \in BOOLEAN}
      [] c = "boot" -> {Args(a, None, NoFile, FALSE) : a \in Optional(0..MaxAddr)}

\* the flash memory of the device, as READ and CRCC see it
Mem(a) == (37 * a + 11) % 256
MemBytes(a, n) == [k \in 1..n |-> Mem(a + k - 1)]

\* a reply damaged on the line: same length, first byte changed
Corrupt(d) == IF d = << >> THEN d ELSE << (d[1] + 1) % 256 >> \o Tail(d)

SYNCPICO == << "S", "Y", "N", "C", "P", "I", "C", "O" >>

\* what read_all() may hold 0.1 s after the probe
SyncReplies ==
    {SYNCPICO, << >>, SubSeq(SYNCPICO, 1, 7), SYNCPICO \o << "S" >>,
     << "S", "Y", "N", "C" >>}

(***************************************************************************)
(* The state of a session.                                                 *)
(***************************************************************************)
VARIABLES
    command,    \* the command line: which command,
    args,       \*   and its options
    ports,      \* the candidate ports of sync
    dev,        \* the descriptor the device reports
    budget,     \* how many faults the transport may inject
    pc,         \* where the program is
    status,     \* "running", "ok" (exit code 0), "exit1", "crash" (uncaught exception)
    err,        \* why it ended
    p_idx,      \* sync: index of the port being tried
    s_idx,      \* sync: idx of the attempt on it
    port,       \* the port sync returned
    bl_info,    \* the descriptor info returned (None before)
    info_idx,   \* info: iterations of its loop begun
    addr,       \* resolved start address
    length,     \* resolved length of the running operation
    data,       \* the loaded image
    idx,        \* offset of the running chunk
    size,       \* read_size / erase_size / write_size of the running chunk
    attempt,    \* attempts of the running chunk that failed
    rdata,      \* _read: the bytes READ returned
    out,        \* read: the bytes written to out_file
    handles,    \* serial handles open
    wire,       \* history: the frames written to the serial port, in order
    acked,      \* history: the frames whose reply the program accepted
    faults,     \* history: faults injected so far
    mark,       \* history: Len(wire) when the running chunk began
    sync_tries, \* history: attempts sync made, per port index
    sync_acks,  \* history: port indexes whose attempt read exactly SYNCPICO
    \* one call of send_cmd, byte by byte
    sc_pc,      \* where send_cmd is
    cmd_len,    \* len(cmd) + len(args)
    resp_size,  \* its resp_size argument
    timeout,    \* its timeout argument, in ticks of the clock
    resp,       \* the bytes accumulated
    start,      \* time() at line 60
    now,        \* the clock
    ret,        \* the data returned
    \* one call of a function of util.py or type_hints.py
    fn,         \* which function
    fn_in,      \* its arguments
    fn_out      \* what it returned (None before)

inputs == << command, args, ports, dev, budget >>
scan == << sc_pc, cmd_len, resp_size, timeout, resp, start, now, ret >>
call == << fn, fn_in, fn_out >>
fixed == << inputs, scan, call >>
syncv == << p_idx, s_idx, port, sync_tries, sync_acks >>
opv == << addr, length, data, idx, size, attempt, rdata, out, mark >>
vars == << command, args, ports, dev, budget, pc, status, err, p_idx, s_idx,
           port, bl_info, info_idx, addr, length, data, idx, size, attempt,
           rdata, out, handles, wire, acked, faults, mark, sync_tries,
           sync_acks, sc_pc, cmd_len, resp_size, timeout, resp, start, now, ret,
           fn, fn_in, fn_out >>

FrameOn(p, c, a, n, d) == [port |-> p, cmd |-> c, addr |-> a, size |-> n, data |-> d]
\* a frame of send_cmd, written to the port sync returned
Frame(c, a, n, d) == FrameOn(Get(port), c, a, n, d)

\* no call of send_cmd is followed byte by byte
ScanIdle ==
    /\ sc_pc = "idle" /\ cmd_len = 0 /\ resp_size = 0 /\ timeout = 0
    /\ resp = << >> /\ start = 0 /\ now = 0 /\ ret = << >>

\* no function is called on its own
CallIdle == fn = "none" /\ fn_in = << >> /\ fn_out = None

\* the state at the first line of a command
SessionStart ==
    /\ pc = "sync" /\ status = "running" /\ err = ""
    /\ p_idx = 1 /\ s_idx = 0 /\ port = None
    /\ bl_info = None /\ info_idx = 0
    /\ addr = 0 /\ length = 0 /\ data = << >>
    /\ idx = 0 /\ size = 0 /\ attempt = 0 /\ rdata = << >> /\ out = << >>
    /\ handles = 0 /\ wire = << >> /\ acked = << >> /\ faults = 0 /\ mark = 0
    /\ sync_tries = [i \in 1..Len(ports) |-> 0]
    /\ sync_acks = {}

InitSession(cmds, plists, devs, b) ==
    /\ command \in cmds
    /\ args \in ArgsOf(command)
    /\ ports \in plists
    /\ dev \in devs
    /\ budget = b
    /\ SessionStart
    /\ ScanIdle
    /\ CallIdle

Init == InitSession(Commands, {<< >>, <<"p1">>}, Descriptors, MaxFaults)

\* the ways a command ends
Return == pc' = "done" /\ status' = "ok" /\ err' = ""
Exit1(why) == pc' = "done" /\ status' = "exit1" /\ err' = why
Raise(exc) == pc' = "done" /\ status' = "crash" /\ err' = exc
Goto(l) == pc' = l /\ UNCHANGED << status, err >>

\* the transport may fail once more
MayFail == faults < budget
Fault == MayFail /\ faults' = faults + 1
NoFault == faults' = faults

\* _serial(port) opened; the with block is entered
Opened == handles' = handles + 1
\* a with block that forgets its port: C8 must tell the difference
Closed_leak == handles' = handles

\* the with block is left, by return or by exception: the port is closed
Closed == handles' = handles - 1

\* ser.write(cmd); ser.write(args)
Sent(f) == wire' = Append(wire, f)
\* the whole reply to the last frame was accepted
Accepted == acked' = Append(acked, wire'[Len(wire')])
Rejected == acked' = acked

\* the READ and WRIT frames of size 0 written so far
Spins == Cardinality({k \in 1..Len(wire) :
                        wire[k].cmd \in {"READ", "WRIT"} /\ wire[k].size = 0})

(***************************************************************************)
(* cli.py sync (lines 20-45).                                              *)
(***************************************************************************)
\* a comparison that accepts whatever begins with SYNCPICO: C9 must tell the
\* difference
SyncMatches_prefix(r) == Slice(r, 0, 8) = SYNCPICO

\* resp == b"SYNCPICO"
SyncMatches(r) == r = SYNCPICO

\* the attempt on ports[p_idx] is over without a match: continue with the
\* next idx, or with the next port after the last one
SyncContinue ==
    /\ sync_tries' = [sync_tries EXCEPT ![p_idx] = @ + 1]
    /\ IF s_idx + 1 < SyncAttempts
       THEN s_idx' = s_idx + 1 /\ p_idx' = p_idx
       ELSE s_idx' = 0 /\ p_idx' = p_idx + 1
    /\ Goto("sync")
    /\ UNCHANGED << port, sync_acks >>

\* lines 27-32: the next attempt opens the port; an open that raises is
\* caught by line 37 and ends the attempt
sync_open ==
    /\ pc = "sync" /\ p_idx <= Len(ports)
    /\ \/ Opened /\ NoFault /\ Goto("sync_probe") /\ UNCHANGED syncv
       \/ Fault /\ SyncContinue /\ UNCHANGED handles
    /\ UNCHANGED << fixed, bl_info, info_idx, opv, wire, acked >>

\* lines 33-43: the probe is written, the reply read, the port closed, the
\* reply compared
sync_probe ==
    /\ pc = "sync_probe"
    /\ Closed
    /\ \/ \* ser.write raises
          Fault /\ SyncContinue /\ UNCHANGED << wire, acked >>
       \/ \* ser.read_all raises
          /\ Fault /\ SyncContinue
          /\ Sent(FrameOn(ports[p_idx], "SYNC", 0, 0, << >>)) /\ Rejected
       \/ \E r \in SyncReplies :
            /\ Sent(FrameOn(ports[p_idx], "SYNC", 0, 0, << >>))
            /\ IF r = SYNCPICO THEN NoFault ELSE Fault
            /\ IF SyncMatches(r)
               THEN /\ port' = Some(ports[p_idx])
                    /\ Accepted
                    /\ sync_tries' = [sync_tries EXCEPT ![p_idx] = @ + 1]
                    /\ sync_acks' = IF r = SYNCPICO THEN sync_acks \cup {p_idx}
                                    ELSE sync_acks
                    /\ UNCHANGED << p_idx, s_idx >>
                    /\ IF command = "sync" THEN Return ELSE Goto("info")
               ELSE SyncContinue /\ Rejected
    /\ UNCHANGED << fixed, bl_info, info_idx, opv >>

\* lines 44-45: every port tried in vain
sync_fail ==
    /\ pc = "sync" /\ p_idx > Len(ports)
    /\ Exit1("NoDeviceFound")
    /\ UNCHANGED << fixed, syncv, bl_info, info_idx, opv, handles, wire, acked,
                    faults >>

(***************************************************************************)
(* How a call of send_cmd (lines 47-70) appears in a session: the port is  *)
(* opened, then the exchange runs, the port is closed and the caller goes  *)
(* on with what came back.  The scan of the reply is followed byte by byte *)
(* further down.                                                           *)
(***************************************************************************)
\* with _serial(port) as ser: an open that raises leaves the command as a
\* SerialException, which no retry loop catches
\* an open whose error starts the attempt again: C20 must tell the difference
SendOpen_retry(from, to) ==
    /\ pc = from
    /\ \/ Opened /\ NoFault /\ Goto(to)
       \/ Fault /\ Goto(from) /\ UNCHANGED handles

SendOpen(from, to) ==
    /\ pc = from
    /\ \/ Opened /\ NoFault /\ Goto(to)
       \/ Fault /\ Raise("SerialException") /\ UNCHANGED handles

(***************************************************************************)
(* cli.py info (lines 72-85) and BlInfo.from_bytes (util.py 22-37).        *)
(***************************************************************************)
\* what follows line 85 in the command that called info
AfterInfo ==
    IF command = "info" THEN Return ELSE Goto(command)

\* a timeout that starts the next iteration of the loop: C19 must tell the
\* difference
info_timeout_retry == Goto("info")

\* lines 77-78: nothing inside the loop catches what send_cmd raises
info_timeout == Raise("ValueError")

info_open ==
    /\ info_idx < InfoAttempts
    /\ SendOpen("info", "info_xchg")
    /\ info_idx' = info_idx + 1
    /\ UNCHANGED << fixed, syncv, bl_info, opv, wire, acked >>

info_xchg ==
    /\ pc = "info_xchg"
    /\ Closed
    /\ \/ \* 24 bytes after the marker: the descriptor
          /\ Sent(Frame("INFO", 0, 0, << >>)) /\ NoFault /\ Accepted
          /\ bl_info' = Some(dev)
          /\ AfterInfo
       \/ \* more than 24 bytes arrived with the marker: from_bytes exits
          /\ Sent(Frame("INFO", 0, 0, << >>)) /\ Fault /\ Rejected
          /\ Exit1("InfoLength") /\ UNCHANGED bl_info
       \/ \* no marker before the deadline: send_cmd raises ValueError
          /\ Sent(Frame("INFO", 0, 0, << >>)) /\ Fault /\ Rejected
          /\ info_timeout /\ UNCHANGED bl_info
       \/ \* ser.read_all raises
          /\ Sent(Frame("INFO", 0, 0, << >>)) /\ Fault /\ Rejected
          /\ Raise("SerialException") /\ UNCHANGED bl_info
       \/ \* ser.write raises
          /\ UNCHANGED << wire, acked >> /\ Fault
          /\ Raise("SerialException") /\ UNCHANGED bl_info
    /\ UNCHANGED << fixed, syncv, info_idx, opv >>

(***************************************************************************)
(* The loop over the chunks and the retry loop around a chunk (cli.py      *)
(* 125-135, 168-179, 219-229).                                             *)
(***************************************************************************)
\* a chunk size that ignores what remains: C3 must tell the difference
ChunkSize_cap(cap, remaining) == cap

\* min(bl_info.max_data_len, length - idx), min(0xfffff000, length - idx)
ChunkSize(cap, remaining) == Min(cap, remaining)

\* a retry loop that gives up one attempt early: C4 must tell the difference
ChunkFailed_early(again) ==
    /\ attempt' = attempt + 1
    /\ IF attempt + 2 < ChunkAttempts THEN Goto(again) ELSE Raise("RuntimeError")

\* except ValueError: pass -- and after the last attempt the for-else runs
\* a bare raise, which with no exception being handled is a RuntimeError
ChunkFailed(again) ==
    /\ attempt' = attempt + 1
    /\ IF attempt + 1 < ChunkAttempts THEN Goto(again) ELSE Raise("RuntimeError")

(***************************************************************************)
(* cli.py read (lines 105-135) and _read (lines 87-103).                   *)
(***************************************************************************)
read_begin ==
    /\ pc = "read"
    /\ LET bl == Get(bl_info)
           a == IF IsNone(args.addr) THEN bl.flash_start ELSE Get(args.addr)
       IN /\ addr' = a
          /\ length' = IF IsNone(args.length) THEN flash_end(bl) - a
                       ELSE Get(args.length)
    /\ idx' = 0 /\ out' = << >>
    /\ Goto("read_loop")
    /\ UNCHANGED << fixed, syncv, bl_info, info_idx, data, size, attempt, rdata,
                    mark, handles, wire, acked, faults >>

read_loop ==
    /\ pc = "read_loop"
    /\ IF idx < length
       THEN /\ size' = ChunkSize(Get(bl_info).max_data_len, length - idx)
            /\ size' = 0 => Spins < MaxSpin
            /\ attempt' = 0 /\ mark' = Len(wire)
            /\ Goto("read_try")
       ELSE Return /\ UNCHANGED << size, attempt, mark >>
    /\ UNCHANGED << fixed, syncv, bl_info, info_idx, addr, length, data, idx,
                    rdata, out, handles, wire, acked, faults >>

_read_open ==
    /\ SendOpen("read_try", "read_xchg")
    /\ UNCHANGED << fixed, syncv, bl_info, info_idx, opv, wire, acked >>

\* lines 93-97: READ, and the length of what came back
_read_xchg ==
    /\ pc = "read_xchg"
    /\ Closed /\ Rejected
    /\ LET frame == Frame("READ", addr + idx, size, << >>)
           stored == MemBytes(addr + idx, size)
       IN \/ \E d \in {stored, Corrupt(stored)} :
               /\ Sent(frame)
               /\ IF d = stored THEN NoFault ELSE Fault
               /\ IF Len(d) # size
                  THEN ChunkFailed("read_try") /\ UNCHANGED rdata
                  ELSE rdata' = d /\ Goto("crcc") /\ UNCHANGED attempt
          \/ \* more than size bytes came with the marker, or no marker came
             /\ Sent(frame) /\ Fault
             /\ ChunkFailed("read_try") /\ UNCHANGED rdata
          \/ \* ser.read_all raises
             /\ Sent(frame) /\ Fault
             /\ Raise("SerialException") /\ UNCHANGED << attempt, rdata >>
          \/ \* ser.write raises
             /\ UNCHANGED wire /\ Fault
             /\ Raise("SerialException") /\ UNCHANGED << attempt, rdata >>
    /\ UNCHANGED << fixed, syncv, bl_info, info_idx, addr, length, data, idx,
                    size, out, mark >>

_crcc_open ==
    /\ SendOpen("crcc", "crcc_xchg")
    /\ UNCHANGED << fixed, syncv, bl_info, info_idx, opv, wire, acked >>

\* a comparison that lets every CRC pass: C11 must tell the difference
CrcMismatch_never(expected_crc, crc) == FALSE

\* lines 100 and 191: if expected_crc != crc
CrcMismatch(expected_crc, crc) == expected_crc # crc

\* lines 98-103 and 129-135: CRCC, the comparison, f.write and idx += read_size
_crcc_xchg ==
    /\ pc = "crcc_xchg"
    /\ Closed
    /\ LET frame == Frame("CRCC", addr + idx, size, << >>)
           stored == crc32(MemBytes(addr + idx, size))
           expected_crc == crc32(rdata)
       IN \/ \E crc \in {stored, Corrupt(stored)} :
               /\ Sent(frame)
               /\ IF crc = stored THEN NoFault ELSE Fault
               /\ IF CrcMismatch(expected_crc, crc)
                  THEN ChunkFailed("read_try") /\ Rejected /\ UNCHANGED << out, idx >>
                  ELSE /\ out' = out \o rdata
                       /\ acked' = Append(acked, Frame("READ", addr + idx, size, rdata))
                       /\ idx' = idx + size
                       /\ Goto("read_loop") /\ UNCHANGED attempt
          \/ \* more than 4 bytes came with the marker, or no marker came
             /\ Sent(frame) /\ Fault /\ Rejected
             /\ ChunkFailed("read_try") /\ UNCHANGED << out, idx >>
          \/ /\ Sent(frame) /\ Fault /\ Rejected
             /\ Raise("SerialException") /\ UNCHANGED << attempt, out, idx >>
          \/ /\ UNCHANGED wire /\ Fault /\ Rejected
             /\ Raise("SerialException") /\ UNCHANGED << attempt, out, idx >>
    /\ UNCHANGED << fixed, syncv, bl_info, info_idx, addr, length, data, size,
                    rdata, mark >>

(***************************************************************************)
(* cli.py erase (lines 145-179) and _erase (lines 137-143).                *)
(***************************************************************************)
RECURSIVE Pow2Above(_, _)
\* the least p * 2^k above m
Pow2Above(p, m) == IF p > m THEN p ELSE Pow2Above(2 * p, m)

\* a & m for a mask m >= 0 and any integer a (two's complement)
PyAnd(a, m) == BitAnd(a % Pow2Above(1, m), m)

\* line 164
Misaligned(a, l, bl) ==
    PyAnd(a, sector_size(bl) - 1) # 0 \/ PyAnd(l, sector_size(bl) - 1) # 0

\* lines 151-167; flash passes port, addr, length and bl_info
erase_begin ==
    /\ pc = "erase"
    /\ LET bl == Get(bl_info)
           a == IF command = "flash" THEN addr
                ELSE IF IsNone(args.addr) THEN bl.erase_start ELSE Get(args.addr)
           l == IF command = "flash" THEN length
                ELSE IF IsNone(args.length) THEN flash_end(bl) - a
                ELSE Get(args.length)
       IN /\ addr' = a /\ length' = l
          /\ IF Misaligned(a, l, bl)
             THEN Exit1("AlignmentViolation") /\ UNCHANGED idx
             ELSE idx' = 0 /\ Goto("erase_loop")
    /\ UNCHANGED << fixed, syncv, bl_info, info_idx, data, size, attempt, rdata,
                    out, mark, handles, wire, acked, faults >>

\* line 250 follows line 249 in flash; erase itself returns
erase_return == IF command = "flash" THEN Goto("write") ELSE Return

\* lines 168-171
erase_loop ==
    /\ pc = "erase_loop"
    /\ IF idx < length
       THEN /\ size' = ChunkSize(EraseChunkCap, length - idx)
            /\ attempt' = 0 /\ mark' = Len(wire)
            /\ Goto("erase_try")
       ELSE erase_return /\ UNCHANGED << size, attempt, mark >>
    /\ UNCHANGED << fixed, syncv, bl_info, info_idx, addr, length, data, idx,
                    rdata, out, handles, wire, acked, faults >>

_erase_open ==
    /\ SendOpen("erase_try", "erase_xchg")
    /\ UNCHANGED << fixed, syncv, bl_info, info_idx, opv, wire, acked >>

_erase_xchg ==
    /\ pc = "erase_xchg"
    /\ Closed
    /\ LET frame == Frame("ERAS", addr + idx, size, << >>)
       IN \/ /\ Sent(frame) /\ NoFault /\ Accepted
             /\ idx' = idx + size
             /\ Goto("erase_loop") /\ UNCHANGED attempt
          \/ \* no marker before the deadline
             /\ Sent(frame) /\ Fault /\ Rejected
             /\ ChunkFailed("erase_try") /\ UNCHANGED idx
          \/ /\ Sent(frame) /\ Fault /\ Rejected
             /\ Raise("SerialException") /\ UNCHANGED << attempt, idx >>
          \/ /\ UNCHANGED wire /\ Fault /\ Rejected
             /\ Raise("SerialException") /\ UNCHANGED << attempt, idx >>
    /\ UNCHANGED << fixed, syncv, bl_info, info_idx, addr, length, data, size,
                    rdata, out, mark >>

(***************************************************************************)
(* cli.py write (lines 195-229) and _write (lines 181-193).                *)
(***************************************************************************)
\* a range check without its lower bound: C5 must tell the difference
OutOfRange_upper(a, l, bl) == a + l > flash_end(bl)

\* lines 211 and 214
OutOfRange(a, l, bl) == a < bl.flash_start \/ a + l > flash_end(bl)

\* lines 201-218; flash passes in_file, port, addr and bl_info
write_begin ==
    /\ pc = "write"
    /\ LET bl == Get(bl_info)
           got == load_file(args.file, bl,
                            IF command = "flash" THEN Some(addr) ELSE args.addr)
       IN CASE got.res = "exit1" ->
                 Exit1(got.err) /\ UNCHANGED << addr, data, length, idx >>
            [] got.res = "crash" ->
                 Raise(got.err) /\ UNCHANGED << addr, data, length, idx >>
            [] OTHER ->
                 /\ addr' = Get(got.addr)
                 /\ data' = got.data
                 /\ length' = Len(got.data)
                 /\ IF OutOfRange(Get(got.addr), Len(got.data), bl)
                    THEN Exit1("RangeViolation") /\ UNCHANGED idx
                    ELSE idx' = 0 /\ Goto("write_loop")
    /\ UNCHANGED << fixed, syncv, bl_info, info_idx, size, attempt, rdata, out,
                    mark, handles, wire, acked, faults >>

\* line 251 follows line 250 in flash; write itself returns
write_return == IF command = "flash" THEN Goto("seal") ELSE Return

\* lines 219-221
write_loop ==
    /\ pc = "write_loop"
    /\ IF idx < length
       THEN /\ size' = ChunkSize(Get(bl_info).max_data_len, length - idx)
            /\ size' = 0 => Spins < MaxSpin
            /\ attempt' = 0 /\ mark' = Len(wire)
            /\ Goto("write_try")
       ELSE write_return /\ UNCHANGED << size, attempt, mark >>
    /\ UNCHANGED << fixed, syncv, bl_info, info_idx, addr, length, data, idx,
                    rdata, out, handles, wire, acked, faults >>

_write_open ==
    /\ SendOpen("write_try", "write_xchg")
    /\ UNCHANGED << fixed, syncv, bl_info, info_idx, opv, wire, acked >>

\* lines 182-193 and 223-229: WRIT, the comparison and idx += write_size
_write_xchg ==
    /\ pc = "write_xchg"
    /\ Closed
    /\ LET payload == Slice(data, idx, idx + size)
           frame == Frame("WRIT", addr + idx, Len(payload), payload)
           stored == crc32(payload)
           expected_crc == crc32(payload)
       IN \/ \E crc \in {stored, Corrupt(stored)} :
               /\ Sent(frame)
               /\ IF crc = stored THEN NoFault ELSE Fault
               /\ IF CrcMismatch(expected_crc, crc)
                  THEN ChunkFailed("write_try") /\ Rejected /\ UNCHANGED idx
                  ELSE /\ idx' = idx + size /\ Accepted
                       /\ Goto("write_loop") /\ UNCHANGED attempt
          \/ \* more than 4 bytes came with the marker, or no marker came
             /\ Sent(frame) /\ Fault /\ Rejected
             /\ ChunkFailed("write_try") /\ UNCHANGED idx
          \/ /\ Sent(frame) /\ Fault /\ Rejected
             /\ Raise("SerialException") /\ UNCHANGED << attempt, idx >>
          \/ /\ UNCHANGED wire /\ Fault /\ Rejected
             /\ Raise("SerialException") /\ UNCHANGED << attempt, idx >>
    /\ UNCHANGED << fixed, syncv, bl_info, info_idx, addr, length, data, size,
                    rdata, out, mark >>

(***************************************************************************)
(* cli.py flash (lines 239-256), _seal (231-237), boot (266-274) and _go   *)
(* (258-264).                                                              *)
(***************************************************************************)
\* an erase length rounded down instead of up: C17 must tell the difference
erase_length_floor(n, bl) == n - (n % bl.erase_size)

\* lines 247-249: len(data) + erase_pad_length
erase_length(n, bl) == n + pad_len(n, bl.erase_size)

\* lines 246-249: the image is loaded and the erase length computed
flash_begin ==
    /\ pc = "flash"
    /\ LET bl == Get(bl_info)
           got == load_file(args.file, bl, args.addr)
       IN CASE got.res = "exit1" -> Exit1(got.err) /\ UNCHANGED << addr, data, length >>
            [] got.res = "crash" -> Raise(got.err) /\ UNCHANGED << addr, data, length >>
            [] got.res = "ok" /\ bl.erase_size = 0 ->
                 Raise("ZeroDivisionError") /\ UNCHANGED << addr, data, length >>
            [] OTHER ->
                 /\ addr' = Get(got.addr)
                 /\ data' = got.data
                 /\ length' = erase_length(Len(got.data), bl)
                 /\ Goto("erase")
    /\ UNCHANGED << fixed, syncv, bl_info, info_idx, idx, size, attempt, rdata,
                    out, mark, handles, wire, acked, faults >>

_seal_open ==
    /\ SendOpen("seal", "seal_xchg")
    /\ UNCHANGED << fixed, syncv, bl_info, info_idx, opv, wire, acked >>

\* a flash that boots whether asked to or not: C10 must tell the difference
seal_return_boot == Goto("boot")

\* lines 255-256
seal_return == IF args.should_boot THEN Goto("boot") ELSE Return

\* a SEAL that counts one byte too many: C15 must tell the difference
seal_frame_long(a, d) == Frame("SEAL", a, Len(d) + 1, crc32(d))

\* lines 251-254 and 232-237: addr, len(data) and zlib.crc32(data)
seal_frame(a, d) == Frame("SEAL", a, Len(d), crc32(d))

\* lines 251-254: SEAL with the CRC of the image
_seal_xchg ==
    /\ pc = "seal_xchg"
    /\ Closed
    /\ LET frame == seal_frame(addr, data)
       IN \/ /\ Sent(frame) /\ NoFault /\ Accepted
             /\ seal_return
          \/ \* no marker before the deadline: nothing catches the ValueError
             /\ Sent(frame) /\ Fault /\ Rejected /\ Raise("ValueError")
          \/ /\ Sent(frame) /\ Fault /\ Rejected /\ Raise("SerialException")
          \/ /\ UNCHANGED wire /\ Fault /\ Rejected /\ Raise("SerialException")
    /\ UNCHANGED << fixed, syncv, bl_info, info_idx, opv >>

\* line 273: hex(addr) of a missing --addr is a TypeError
boot_begin ==
    /\ pc = "boot"
    /\ LET a == IF command = "flash" THEN Some(addr) ELSE args.addr
       IN IF IsNone(a) THEN Raise("TypeError") /\ UNCHANGED addr
          ELSE addr' = Get(a) /\ Goto("go")
    /\ UNCHANGED << fixed, syncv, bl_info, info_idx, length, data, idx, size,
                    attempt, rdata, out, mark, handles, wire, acked, faults >>

\* a _go that lets the exception through: C12 must tell the difference
go_except_raise == Raise("SerialException")

\* lines 262-264: except SerialException: the message is printed, _go returns
\* and boot with it
go_except == Return

\* lines 260-264: a SerialException of send_cmd, from the open on, is caught
_go_open ==
    /\ pc = "go"
    /\ \/ Opened /\ NoFault /\ Goto("go_xchg")
       \/ Fault /\ go_except /\ UNCHANGED handles
    /\ UNCHANGED << fixed, syncv, bl_info, info_idx, opv, wire, acked >>

_go_xchg ==
    /\ pc = "go_xchg"
    /\ Closed
    /\ LET frame == Frame("GOGO", addr, 0, << >>)
       IN \/ \* the marker came back
             /\ Sent(frame) /\ NoFault /\ Accepted /\ Return
          \/ \* the device jumped and its USB serial went away: read_all raises
             /\ Sent(frame) /\ NoFault /\ Rejected /\ go_except
          \/ \* no marker and no disconnect before the deadline
             /\ Sent(frame) /\ Fault /\ Rejected /\ Raise("ValueError")
          \/ \* ser.write raises
             /\ UNCHANGED wire /\ Fault /\ Rejected /\ go_except
    /\ UNCHANGED << fixed, syncv, bl_info, info_idx, opv >>

(***************************************************************************)
(* The sessions.                                                           *)
(***************************************************************************)
Next ==
    \/ sync_open \/ sync_probe \/ sync_fail
    \/ info_open \/ info_xchg
    \/ read_begin \/ read_loop \/ _read_open \/ _read_xchg \/ _crcc_open \/ _crcc_xchg
    \/ erase_begin \/ erase_loop \/ _erase_open \/ _erase_xchg
    \/ write_begin \/ write_loop \/ _write_open \/ _write_xchg
    \/ flash_begin \/ _seal_open \/ _seal_xchg
    \/ boot_begin \/ _go_open \/ _go_xchg

\* every command, with up to MaxFaults faults of the transport
Spec == Init /\ [][Next]_vars

(***************************************************************************)
(* sync alone, over up to two candidate ports, with a transport that may   *)
(* fail every attempt.                                                     *)
(***************************************************************************)
InitSync == InitSession({"sync"}, PortLists, Descriptors, 2 * SyncAttempts)

NextSync == sync_open \/ sync_probe \/ sync_fail

SpecSync == InitSync /\ [][NextSync]_vars

(***************************************************************************)
(* read, erase and write with a transport that may fail every attempt of a *)
(* chunk.                                                                  *)
(***************************************************************************)
RetryDescriptors ==
    {d \in Descriptors : d.erase_size = 1 /\ d.write_size = 1 /\ d.max_data_len >= 1}

InitRetry ==
    InitSession({"read", "erase", "write"}, {<<"p1">>}, RetryDescriptors, ChunkAttempts)

NextRetry ==
    \/ sync_open \/ sync_probe
    \/ info_open \/ info_xchg
    \/ read_begin \/ read_loop \/ _read_open \/ _read_xchg \/ _crcc_open \/ _crcc_xchg
    \/ erase_begin \/ erase_loop \/ _erase_open \/ _erase_xchg
    \/ write_begin \/ write_loop \/ _write_open \/ _write_xchg

SpecRetry == InitRetry /\ [][NextRetry]_vars

(***************************************************************************)
(* cli.py send_cmd (lines 47-70), byte by byte: the reply arrives in       *)
(* pieces, read_all() returns whatever is buffered, and the clock runs.    *)
(***************************************************************************)
\* b"OKOK"
OKOK == << "O", "K", "O", "K" >>

\* the bytes a reply is made of: enough to spell the marker, to miss it and
\* to spell it at another offset
ReplyBytes == {"O", "K"}

\* what one read_all() may return
Reads == {<< >>} \cup {<< a >> : a \in ReplyBytes}
              \cup {<< a, b >> : a \in ReplyBytes, b \in ReplyBytes}

\* the timeout argument, in ticks of the clock: the default of 1 s, and the
\* 10 s of ERAS and WRIT (lines 143 and 189)
Timeouts == {1, 2}

\* the resp_size argument: the default 0, and a reply with a payload (the
\* callers pass 4, 24 and the size of a READ)
RespSizes == {0, 1}

\* line 58
total_len(cl, rs) == cl + 4 + rs

\* a scan that takes the marker wherever it stands: C6 must tell the difference
Matches_anywhere(r, cl, rs) ==
    /\ \E j \in 0..Len(r) : Slice(r, j, j + 4) = OKOK
    /\ Len(r) >= total_len(cl, rs)

\* line 63: resp[cmd_len:cmd_len + 4] == b"OKOK" and len(resp) >= total_len
Matches(r, cl, rs) == Slice(r, cl, cl + 4) = OKOK /\ Len(r) >= total_len(cl, rs)

\* a loop without a deadline: C7 must tell the difference
Expired_never == FALSE

\* line 61, negated: the loop condition time() - start < timeout is false
Expired == ~(now - start < timeout)

\* the session variables while one call is followed on its own
SessionParked ==
    /\ command = "info"
    /\ args = Args(None, None, NoFile, FALSE)
    /\ ports = << "p1" >>
    /\ dev = BlInfo(2, 4, 2, 1, 1, 1)
    /\ budget = 0
    /\ SessionStart

\* send_cmd is called: cmd has 4 bytes, args up to MaxArgLen
InitSend ==
    /\ SessionParked
    /\ sc_pc = "call"
    /\ cmd_len \in {4 + n : n \in 0..MaxArgLen}
    /\ resp_size \in RespSizes
    /\ timeout \in Timeouts
    /\ resp = << >> /\ start = 0 /\ now = 0 /\ ret = << >>
    /\ CallIdle

session == << command, args, ports, dev, budget, pc, status, err, p_idx, s_idx,
              port, bl_info, info_idx, addr, length, data, idx, size, attempt,
              rdata, out, wire, acked, faults, mark, sync_tries, sync_acks >>

\* line 53: with _serial(port) as ser
send_open ==
    /\ sc_pc = "call"
    /\ \/ Opened /\ sc_pc' = "write"
       \/ sc_pc' = "raised" /\ UNCHANGED handles
    /\ UNCHANGED << session, call, cmd_len, resp_size, timeout, resp, start, now, ret >>

\* lines 54-60: the writes, resp = b"" and start = time()
send_write ==
    /\ sc_pc = "write"
    /\ \/ sc_pc' = "loop" /\ start' = now /\ UNCHANGED handles
       \/ sc_pc' = "raised" /\ Closed /\ UNCHANGED start
    /\ resp' = << >>
    /\ UNCHANGED << session, call, cmd_len, resp_size, timeout, now, ret >>

\* lines 61-64 and 69-70: one iteration of the loop; on a match the loop is
\* left, the with block too, and the bytes after the marker are returned
send_poll ==
    /\ sc_pc = "loop" /\ ~Expired
    /\ \/ \E r \in Reads :
            /\ Len(resp) + Len(r) <= total_len(cmd_len, resp_size) + MaxExtra
            /\ resp' = resp \o r
            /\ IF Matches(resp', cmd_len, resp_size)
               THEN /\ sc_pc' = "returned" /\ Closed
                    /\ ret' = Slice(resp', cmd_len + 4, Len(resp'))
               ELSE UNCHANGED << sc_pc, handles, ret >>
       \/ \* ser.read_all raises: the exception leaves send_cmd, resp is gone
          sc_pc' = "raised" /\ Closed /\ resp' = << >> /\ UNCHANGED ret
    /\ UNCHANGED << session, call, cmd_len, resp_size, timeout, start, now >>

\* lines 65-68: the loop condition is false: the else branch raises
send_timeout ==
    /\ sc_pc = "loop" /\ Expired
    /\ sc_pc' = "timeout" /\ Closed
    /\ UNCHANGED << session, call, cmd_len, resp_size, timeout, resp, start, now, ret >>

\* time() advances while the call is in its loop; the clock is read once in
\* an iteration, at line 61, and readings past the longest deadline are not
\* told apart
tick ==
    /\ sc_pc = "loop" /\ ~Expired
    /\ \E t \in Timeouts : now - start < t
    /\ now' = now + 1
    /\ UNCHANGED << session, call, handles, sc_pc, cmd_len, resp_size, timeout, resp,
                    start, ret >>

send_cmd == send_open \/ send_write \/ send_poll \/ send_timeout

NextSend == send_open \/ send_write \/ send_poll \/ send_timeout \/ tick

\* the interpreter keeps running the call and the clock keeps advancing
SpecSend == InitSend /\ [][NextSend]_vars /\ WF_vars(send_cmd) /\ WF_vars(tick)

(***************************************************************************)
(* The functions of util.py and type_hints.py, each called once on its     *)
(* own with arguments from a bounded set.                                  *)
(***************************************************************************)
\* the data of a chunk: sec.data() of a section with sec_size > 0
ChunkData == {[k \in 1..n |-> b] : n \in 1..MaxChunkLen, b \in {1, 2}}

\* the chunks list of load_elf when line 92 is reached
ChunkLists ==
    UNION {[1..n -> {Chunk(p, d) : p \in 0..MaxPaddr, d \in ChunkData}] :
              n \in 1..MaxChunks}

\* the descriptors load_file is called with: write_size 0 included
LoadDescriptors == {BlInfo(2, 4, 2, 1, ws, 1) : ws \in 0..MaxAlign}

LoadArgs ==
    {[file |-> f, bl |-> bl, addr |-> a] :
        f \in Files, bl \in LoadDescriptors, a \in Optional(0..MaxAddr)}

(***************************************************************************)
(* type_hints.py parse_integer.  A string is a sequence of characters; the *)
(* alphabet has decimal, binary and hexadecimal digits, the letters of the *)
(* two prefixes and the sign.                                              *)
(***************************************************************************)
Chars == {"0", "1", "9", "b", "f", "x", "-"}

Strings == UNION {[1..n -> Chars] : n \in 1..MaxStr}

\* the value of a character as a digit; 99 for a character that is none
DigitVal(c) ==
    CASE c = "0" -> 0
      [] c = "1" -> 1
      [] c = "9" -> 9
      [] c = "b" -> 11
      [] c = "f" -> 15
      [] OTHER -> 99

RECURSIVE Value(_, _)
Value(digits, base) ==
    IF digits = << >> THEN 0
    ELSE Value(SubSeq(digits, 1, Len(digits) - 1), base) * base
             + DigitVal(digits[Len(digits)])

HasPrefix(s, letter) == Len(s) >= 2 /\ s[1] = "0" /\ s[2] = letter

\* Python's int(value, base) for base 10, 16 and 2 on this alphabet: an
\* optional sign, then for base 16 an optional 0x and for base 2 an optional
\* 0b, then one or more digits of the base.  None stands for ValueError.
int(value, base) ==
    LET neg == value # << >> /\ value[1] = "-"
        unsigned == IF neg THEN Tail(value) ELSE value
        letter == CASE base = 16 -> "x" [] base = 2 -> "b" [] OTHER -> ""
        digits == IF HasPrefix(unsigned, letter)
                  THEN SubSeq(unsigned, 3, Len(unsigned))
                  ELSE unsigned
        n == Value(digits, base)
    IN IF digits # << >> /\ \A i \in 1..Len(digits) : DigitVal(digits[i]) < base
       THEN Some(IF neg THEN 0 - n ELSE n)
       ELSE None

IntArg(n) == [isint |-> TRUE, int |-> n, str |-> << >>]
StrArg(s) == [isint |-> FALSE, int |-> 0, str |-> s]

Parsed(n) == [res |-> "ok", err |-> "", value |-> n]
ParseRaise(exc) == [res |-> "crash", err |-> exc, value |-> 0]

\* type_hints.py lines 12-28: base 10, then base 16, then base 2
parse_integer(value) ==
    IF value.isint THEN Parsed(value.int)
    ELSE IF int(value.str, 10) # None THEN Parsed(Get(int(value.str, 10)))
    ELSE IF int(value.str, 16) # None THEN Parsed(Get(int(value.str, 16)))
    ELSE IF int(value.str, 2) # None THEN Parsed(Get(int(value.str, 2)))
    ELSE ParseRaise("ValueError")

ParseArgs == {IntArg(n) : n \in 0..MaxInt} \cup {StrArg(s) : s \in Strings}

InitCalls ==
    /\ SessionParked
    /\ ScanIdle
    /\ \/ fn = "merge" /\ fn_in \in ChunkLists
       \/ fn = "pad_len" /\ fn_in \in (0..MaxPadLen) \X (1..MaxAlign)
       \/ fn = "load_file" /\ fn_in \in LoadArgs
       \/ fn = "parse_integer" /\ fn_in \in ParseArgs
    /\ fn_out = None

\* lines 92-101 of load_elf
merge_call ==
    /\ fn = "merge" /\ fn_out = None
    /\ fn_out' = Some(MergeChunks(fn_in))
    /\ UNCHANGED << session, handles, scan, fn, fn_in >>

\* util.py pad_len (lines 103-105)
pad_len_call ==
    /\ fn = "pad_len" /\ fn_out = None
    /\ fn_out' = Some(pad_len(fn_in[1], fn_in[2]))
    /\ UNCHANGED << session, handles, scan, fn, fn_in >>

\* util.py load_file (lines 107-125)
load_file_call ==
    /\ fn = "load_file" /\ fn_out = None
    /\ fn_out' = Some(load_file(fn_in.file, fn_in.bl, fn_in.addr))
    /\ UNCHANGED << session, handles, scan, fn, fn_in >>

\* type_hints.py parse_integer (lines 12-28)
parse_integer_call ==
    /\ fn = "parse_integer" /\ fn_out = None
    /\ fn_out' = Some(parse_integer(fn_in))
    /\ UNCHANGED << session, handles, scan, fn, fn_in >>

NextCalls == merge_call \/ pad_len_call \/ load_file_call \/ parse_integer_call

SpecCalls == InitCalls /\ [][NextCalls]_vars

(***************************************************************************)
(* What the properties below are stated with.                              *)
(***************************************************************************)
\* the frames of the history h whose command is in cs, in order
Of(h, cs) == SelectSeq(h, LAMBDA f : f.cmd \in cs)

RECURSIVE SumSizes(_, _)
\* the sizes of the first n frames of h, added up
SumSizes(h, n) == IF n = 0 THEN 0 ELSE SumSizes(h, n - 1) + h[n].size

\* the elements of a sequence
Range(h) == {h[k] : k \in 1..Len(h)}

\* [a, a + l) lies in [flash_start, flash_start + flash_size)
InFlashRange(a, l, bl) ==
    bl.flash_start <= a /\ a + l <= bl.flash_start + bl.flash_size

\* the image the command line names, resolved against the device
Image == load_file(args.file, dev, args.addr)

(***************************************************************************)
(* C1.  In a flash session whose resolved image range [addr, addr +        *)
(* len(image)) is not fully inside [flash_start, flash_end), the session   *)
(* does not succeed and no ERAS, WRIT, SEAL or GOGO frame is ever written. *)
(* The program does not have this property: flash erases (line 249) before *)
(* write checks the range (lines 211-216).                                 *)
(***************************************************************************)
C1_RangeCheckedBeforeCommands ==
    (/\ command = "flash"
     /\ Image.res = "ok"
     /\ ~InFlashRange(Get(Image.addr), Len(Image.data), dev))
    => /\ Of(wire, {"ERAS", "WRIT", "SEAL", "GOGO"}) = << >>
       /\ status # "ok"

(***************************************************************************)
(* C2.  Whenever erase has resolved addr and length against a descriptor   *)
(* with erase_size >= 1 and addr or length is not a multiple of            *)
(* erase_size, erase ends with the alignment error and no ERAS frame is    *)
(* written.  The program does not have this property: line 164 tests       *)
(* x & (erase_size - 1), which is x mod erase_size only for powers of two. *)
(***************************************************************************)
C2_MisalignedEraseRejected ==
    (/\ command = "erase"
     /\ bl_info # None /\ pc # "erase"
     /\ dev.erase_size >= 1
     /\ (addr % dev.erase_size # 0 \/ length % dev.erase_size # 0))
    => /\ status = "exit1" /\ err = "AlignmentViolation"
       /\ Of(wire, {"ERAS"}) = << >>

(***************************************************************************)
(* C3.  A read or write of length >= 0 that succeeds with max_data_len >=   *)
(* 1 has put exactly ceil(length / max_data_len) chunks through; chunk k   *)
(* has size min(max_data_len, what remained) <= max_data_len and address   *)
(* addr + the sizes of the chunks before it; the sizes add up to length.   *)
(* With a transport that never fails these are also exactly the READ or    *)
(* WRIT frames written.                                                    *)
(***************************************************************************)
CeilDiv(a, b) == (a + b - 1) \div b

\* the command of the chunks of the running operation
ChunkCmd == IF command = "read" THEN "READ" ELSE "WRIT"

Where(h) == [k \in 1..Len(h) |-> << h[k].addr, h[k].size >>]

C3_Chunking ==
    (/\ command \in {"read", "write"}
     /\ status = "ok"
     /\ length >= 0
     /\ dev.max_data_len >= 1)
    => LET md == dev.max_data_len
           cs == Of(acked, {ChunkCmd})
       IN /\ Len(cs) = CeilDiv(length, md)
          /\ \A k \in 1..Len(cs) :
                /\ cs[k].size = Min(md, length - SumSizes(cs, k - 1))
                /\ cs[k].size <= md
                /\ cs[k].addr = addr + SumSizes(cs, k - 1)
          /\ SumSizes(cs, Len(cs)) = length
          /\ faults = 0 => Where(Of(wire, {ChunkCmd})) = Where(cs)

\* a read of three bytes in chunks of two: a full chunk and a partial one
C3_Witness ==
    /\ command = "read" /\ status = "ok"
    /\ dev.max_data_len = 2 /\ length = 3
    /\ Len(Of(acked, {"READ"})) = 2

(***************************************************************************)
(* C4.  A read, erase or write chunk whose attempts all fail is attempted  *)
(* exactly ChunkAttempts = 3 times, each time with the address and size of *)
(* that chunk; then the operation ends with the error of the for-else, and *)
(* nothing is written for a later chunk.  While a chunk is being tried,    *)
(* fewer than 3 of its attempts have failed.                               *)
(***************************************************************************)
\* the frames written since the running chunk began
SinceMark == SubSeq(wire, mark + 1, Len(wire))

OpCmd == CASE command = "read" -> "READ" [] command = "erase" -> "ERAS" [] OTHER -> "WRIT"

C4_RetryExhaustion ==
    /\ err = "RuntimeError" =>
          /\ status = "crash" /\ pc = "done"
          /\ attempt = 3
          /\ Len(Of(SinceMark, {OpCmd})) = 3
          /\ \A k \in 1..Len(SinceMark) :
                SinceMark[k].addr = addr + idx /\ SinceMark[k].size = size
          /\ \A k \in 1..Len(wire) :
                wire[k].cmd \in {"READ", "CRCC", "ERAS", "WRIT"} => wire[k].addr <= addr + idx
    /\ attempt >= 3 => err = "RuntimeError"
    /\ pc \in {"read_try", "erase_try", "write_try"} =>
          attempt < 3 /\ Len(Of(SinceMark, {OpCmd})) = attempt

\* the second chunk of three fails three times
C4_Witness ==
    /\ err = "RuntimeError"
    /\ idx > 0 /\ idx + size < length
    /\ Len(Of(SinceMark, {OpCmd})) = 3

C6_MarkerAtOffset ==
    sc_pc = "returned" =>
        /\ Len(resp) >= cmd_len + 4 + resp_size
        /\ \A i \in 1..4 : resp[cmd_len + i] = OKOK[i]
        /\ Len(ret) = Len(resp) - (cmd_len + 4)
        /\ \A i \in 1..Len(ret) : ret[i] = resp[cmd_len + 4 + i]
        /\ Len(ret) >= resp_size

\* the echo itself spells OKOK, the marker follows it, and more than
\* resp_size bytes had come with the last read
C6_Witness ==
    /\ sc_pc = "returned"
    /\ SubSeq(resp, 1, 4) = OKOK
    /\ Len(ret) > resp_size

(***************************************************************************)
(* C7.  Every call of send_cmd ends: by returning, by the timeout error or *)
(* by a transport error.  It returns data only on an iteration begun       *)
(* before the deadline; once the deadline has passed in the loop the call  *)
(* ends with the timeout error, having returned nothing, its accumulated   *)
(* input not satisfying the marker condition.                              *)
(***************************************************************************)
C7_SendTerminates ==
    /\ <>(sc_pc \in {"returned", "timeout", "raised"})
    /\ (sc_pc = "loop" /\ now - start >= timeout) ~> (sc_pc = "timeout")
    /\ [](sc_pc = "returned" => now - start < timeout)
    /\ [](sc_pc = "timeout" =>
            /\ now - start >= timeout
            /\ ret = << >>
            /\ ~(/\ Len(resp) >= cmd_len + 4 + resp_size
                 /\ SubSeq(resp, cmd_len + 1, cmd_len + 4) = OKOK))

\* the call timed out with the marker in its input but too few bytes after it
C7_Witness ==
    /\ sc_pc = "timeout"
    /\ resp_size > 0
    /\ Len(resp) = cmd_len + 4
    /\ SubSeq(resp, cmd_len + 1, cmd_len + 4) = OKOK

(***************************************************************************)
(* C8.  At most one serial handle is open in any state, and one is open    *)
(* only while an exchange is under way: when a call of send_cmd or an      *)
(* attempt of sync is over - by return, by timeout or by a transport error *)
(* - its handle is closed.                                                 *)
(***************************************************************************)
\* where the program is inside a with block
InExchange ==
    \/ pc \in {"sync_probe", "info_xchg", "read_xchg", "crcc_xchg", "erase_xchg",
               "write_xchg", "seal_xchg", "go_xchg"}
    \/ sc_pc \in {"write", "loop"}

C8_OneHandle ==
    /\ handles \in {0, 1}
    /\ handles = 1 <=> InExchange

\* a session ended by the timeout of an exchange after several exchanges
C8_Witness ==
    /\ pc = "done" /\ err = "ValueError"
    /\ Len(wire) >= 3
    /\ handles = 0

(***************************************************************************)
(* C9.  sync tries the ports in order, each at most 5 times, an attempt    *)
(* that raises counting as one.  It returns port p only if an attempt on p *)
(* read exactly SYNCPICO, no attempt on an earlier port did, and that      *)
(* attempt was the last one made.  It exits with an error only after       *)
(* exactly 5 attempts on every port, none of which read exactly SYNCPICO.  *)
(***************************************************************************)
C9_SyncDiscipline ==
    /\ \A i \in 1..Len(ports) :
          /\ sync_tries[i] <= 5
          /\ \A j \in 1..Len(ports) :
                (i < j /\ sync_tries[j] > 0) => (sync_tries[i] = 5 /\ i \notin sync_acks)
    /\ \A i, j \in 1..Len(wire) :
          (i < j /\ wire[i].port = "p2") => wire[j].port = "p2"
    /\ port # None =>
          \E i \in 1..Len(ports) :
             /\ ports[i] = Get(port)
             /\ sync_acks = {i}
             /\ sync_tries[i] >= 1
             /\ \A j \in 1..Len(ports) : j > i => sync_tries[j] = 0
             /\ acked = << wire[Len(wire)] >>
             /\ pc = "done" /\ status = "ok"
    /\ sync_acks # {} => port # None
    /\ status = "exit1" =>
          /\ err = "NoDeviceFound"
          /\ sync_acks = {} /\ port = None
          /\ \A i \in 1..Len(ports) : sync_tries[i] = 5

\* the first port never answers; the second answers on its third attempt
C9_Witness ==
    /\ Len(ports) = 2
    /\ port = Some("p2")
    /\ sync_tries = << 5, 3 >>

(***************************************************************************)
(* C10.  In a flash run the frames on the wire are in the order SYNC,      *)
(* INFO, ERAS, WRIT, SEAL, GOGO, with at most one accepted SYNC and at     *)
(* most one INFO, SEAL and GOGO.  A WRIT is written only when the accepted *)
(* ERAS chunks cover the image padded to erase_size; SEAL only when the    *)
(* accepted WRIT chunks are the whole image; GOGO only if boot was asked   *)
(* for and SEAL was accepted.                                              *)
(***************************************************************************)
Rank(c) ==
    CASE c = "SYNC" -> 1 [] c = "INFO" -> 2 [] c = "ERAS" -> 3
      [] c = "WRIT" -> 4 [] c = "SEAL" -> 5 [] c = "GOGO" -> 6 [] OTHER -> 0

RECURSIVE Payload(_, _)
\* the data of the first n frames of h, concatenated
Payload(h, n) == IF n = 0 THEN << >> ELSE Payload(h, n - 1) \o h[n].data

\* the least multiple of m that is at least n
RoundUp(n, m) == CHOOSE r \in n..(n + m) : r % m = 0 /\ r - n < m

C10_FlashOrder ==
    command = "flash" =>
        /\ \A i, j \in 1..Len(wire) :
              i < j => (Rank(wire[i].cmd) >= 1 /\ Rank(wire[i].cmd) <= Rank(wire[j].cmd))
        /\ Len(Of(acked, {"SYNC"})) <= 1
        /\ \A c \in {"INFO", "SEAL", "GOGO"} : Len(Of(wire, {c})) <= 1
        /\ Of(wire, {"INFO"}) # << >> => Len(Of(acked, {"SYNC"})) = 1
        /\ Of(wire, {"ERAS"}) # << >> => Of(acked, {"INFO"}) # << >>
        /\ Of(wire, {"WRIT"}) # << >> =>
              LET es == Of(acked, {"ERAS"})
              IN SumSizes(es, Len(es)) = RoundUp(Len(data), dev.erase_size)
        /\ Of(wire, {"SEAL"}) # << >> =>
              LET ws == Of(acked, {"WRIT"})
              IN Payload(ws, Len(ws)) = data /\ data = Image.data
        /\ Of(wire, {"GOGO"}) # << >> =>
              args.should_boot /\ Of(acked, {"SEAL"}) # << >>

\* a flash of a three-byte image that went all the way to GOGO
C10_Witness ==
    /\ command = "flash" /\ status = "ok"
    /\ Len(data) = 3
    /\ Len(Of(acked, {"WRIT"})) >= 2
    /\ Of(acked, {"GOGO"}) # << >>

(***************************************************************************)
(* C11.  In read, the output grows only when a CRCC reply is accepted for  *)
(* a READ reply of exactly size bytes, and then by exactly those bytes; an *)
(* attempt that fails leaves it alone.  The output is at every moment the  *)
(* accepted chunks in order, idx bytes long, each chunk at the next        *)
(* address; with at most one damaged reply it is the device's memory from  *)
(* addr on.  A read of length >= 0 that succeeds has written exactly       *)
(* length bytes.                                                           *)
(***************************************************************************)
C11_ReadOutput ==
    /\ [](command = "read" =>
            LET cs == Of(acked, {"READ"})
            IN /\ out = Payload(cs, Len(cs))
               /\ Len(out) = IF pc \in {"sync", "sync_probe", "info", "info_xchg", "read"}
                             THEN 0 ELSE idx
               /\ \A k \in 1..Len(cs) :
                     /\ Len(cs[k].data) = cs[k].size
                     /\ cs[k].addr = addr + SumSizes(cs, k - 1)
               /\ faults <= 1 => out = [k \in 1..Len(out) |-> (37 * (addr + k - 1) + 11) % 256]
               /\ (status = "ok" /\ length >= 0) => Len(out) = length)
    /\ [][command = "read" =>
            /\ out' # out =>
                  /\ pc = "crcc_xchg" /\ attempt' = attempt
                  /\ Len(rdata) = size
                  /\ out' = out \o rdata
                  /\ wire'[Len(wire')] = Frame("CRCC", addr + idx, size, << >>)
                  /\ wire[Len(wire)] = Frame("READ", addr + idx, size, << >>)
            /\ attempt' > attempt => out' = out]_vars

\* a read of three bytes in two chunks, one attempt of the second having failed
C11_Witness ==
    /\ command = "read" /\ status = "ok"
    /\ faults = 1 /\ length = 3 /\ Len(out) = 3
    /\ Len(Of(wire, {"READ"})) = 3
    /\ Len(Of(acked, {"READ"})) = 2

\* C11 without a condition on length: a successful read has written length bytes
C11_ExactlyLengthBytes ==
    (command = "read" /\ status = "ok") => Len(out) = length

(***************************************************************************)
(* C12.  Once boot has reached _go - in a boot command, or in a flash      *)
(* asked to boot after SEAL was accepted - no transport error ends the     *)
(* command: a SerialException from the open, the write or the read of the  *)
(* GOGO exchange is caught and the command ends successfully.  The only    *)
(* failure left is the timeout of a device that stays connected and mute.  *)
(***************************************************************************)
\* _go has been or is about to be called
GoReached ==
    \/ command = "boot" /\ args.addr # None /\ Of(acked, {"INFO"}) # << >>
    \/ command = "flash" /\ args.should_boot /\ Of(acked, {"SEAL"}) # << >>

C12_DisconnectIsSuccess ==
    GoReached =>
        /\ err # "SerialException"
        /\ pc = "done" => (status = "ok" \/ (status = "crash" /\ err = "ValueError"))
        /\ (pc = "done" /\ Of(acked, {"GOGO"}) = << >> /\ faults = 0) => status = "ok"
        /\ (pc = "done" /\ Of(wire, {"GOGO"}) = << >>) => (status = "ok" /\ faults >= 1)

\* the port could not be opened or written for GOGO, and boot ended well
C12_Witness ==
    /\ command = "boot" /\ GoReached
    /\ pc = "done" /\ status = "ok"
    /\ Of(wire, {"GOGO"}) = << >>
    /\ faults = 1

(***************************************************************************)
(* C13.  The merge of a non-empty chunk list returns the smallest paddr    *)
(* and a buffer that spans from there to the highest end of any chunk -    *)
(* which for a chunk nested in a longer one is beyond the end of the       *)
(* highest-addressed chunk.  A byte no chunk covers is zero; a byte that   *)
(* chunks cover holds the byte of the covering chunk that comes last in    *)
(* the sorted order, so chunks that agree where they overlap are each      *)
(* found whole at offset paddr - min_addr.                                 *)
(***************************************************************************)
\* chunk k of cs covers address a
Covers(cs, k, a) == cs[k].paddr <= a /\ a < cs[k].paddr + Len(cs[k].data)

\* the chunk covering a that the stable sort by paddr puts last
LastCovering(cs, a) ==
    CHOOSE k \in 1..Len(cs) :
        /\ Covers(cs, k, a)
        /\ \A j \in 1..Len(cs) :
              Covers(cs, j, a) =>
                  (cs[j].paddr < cs[k].paddr \/ (cs[j].paddr = cs[k].paddr /\ j <= k))

C13_MergeCoversChunks ==
    (fn = "merge" /\ fn_out # None) =>
        LET cs == fn_in
            m == Get(fn_out)
            lo == CHOOSE a \in {c.paddr : c \in Range(cs)} :
                     \A c \in Range(cs) : a <= c.paddr
            hi == CHOOSE e \in {c.paddr + Len(c.data) : c \in Range(cs)} :
                     \A c \in Range(cs) : c.paddr + Len(c.data) <= e
        IN /\ m.addr = lo
           /\ Len(m.data) = hi - lo
           /\ \A a \in lo..(hi - 1) :
                 m.data[a - lo + 1] =
                    IF \E k \in 1..Len(cs) : Covers(cs, k, a)
                    THEN LET k == LastCovering(cs, a)
                         IN cs[k].data[a - cs[k].paddr + 1]
                    ELSE 0

\* a one-byte chunk nested in a three-byte chunk: the buffer has three bytes
C13_Witness ==
    /\ fn = "merge" /\ fn_out # None
    /\ fn_in = << Chunk(1, << 2 >>), Chunk(0, << 1, 1, 1 >>) >>
    /\ Get(fn_out).data = << 1, 2, 1 >>

\* C13 as the specification words it: the buffer ends where the
\* highest-addressed chunk ends, and every chunk is found at its offset
C13_SpansToLastChunk ==
    (fn = "merge" /\ fn_out # None) =>
        LET cs == fn_in
            m == Get(fn_out)
            lo == CHOOSE a \in {c.paddr : c \in Range(cs)} :
                     \A c \in Range(cs) : a <= c.paddr
            top == CHOOSE k \in 1..Len(cs) :
                     \A j \in 1..Len(cs) :
                        cs[j].paddr < cs[k].paddr \/ (cs[j].paddr = cs[k].paddr /\ j <= k)
            max_addr == cs[top].paddr + Len(cs[top].data)
        IN /\ m.addr = lo
           /\ Len(m.data) = max_addr - lo
           /\ \A k \in 1..Len(cs) : \A i \in 1..Len(cs[k].data) :
                 m.data[cs[k].paddr - lo + i] = cs[k].data[i]
           /\ \A a \in lo..(max_addr - 1) :
                 (\A k \in 1..Len(cs) : ~Covers(cs, k, a)) => m.data[a - lo + 1] = 0

(***************************************************************************)
(* C14.  For length >= 0 and align >= 1, pad_len(length, align) is         *)
(* (align - length mod align) mod align, which is at least 0, less than    *)
(* align and brings length to a multiple of align; and the image load_file *)
(* returns is the loaded data followed by exactly pad_len(len(data),       *)
(* write_size) zero bytes, its length a multiple of write_size.            *)
(***************************************************************************)
\* the bytes load_file has before it pads them
Unpadded(a) ==
    IF a.file.kind = "elf" THEN load_elf(a.file, a.bl).data ELSE a.file.data

C14_Padding ==
    /\ (fn = "pad_len" /\ fn_out # None) =>
          LET l == fn_in[1]
              a == fn_in[2]
              p == Get(fn_out)
          IN /\ p = (a - (l % a)) % a
             /\ 0 <= p /\ p < a
             /\ (l + p) % a = 0
    /\ (fn = "load_file" /\ fn_out # None /\ Get(fn_out).res = "ok") =>
          LET ws == fn_in.bl.write_size
              raw == Unpadded(fn_in)
              img == Get(fn_out).data
              n == (ws - (Len(raw) % ws)) % ws
          IN /\ ws >= 1
             /\ Len(img) = Len(raw) + n
             /\ SubSeq(img, 1, Len(raw)) = raw
             /\ \A k \in (Len(raw) + 1)..Len(img) : img[k] = 0
             /\ Len(img) % ws = 0

\* a two-byte .bin file loaded for a write_size of 4: two zero bytes follow
C14_Witness ==
    /\ fn = "load_file" /\ fn_out # None
    /\ fn_in.file.kind = "bin" /\ fn_in.file.data = << 1, 2 >>
    /\ fn_in.bl.write_size = 4
    /\ Get(fn_out).data = << 1, 2, 0, 0 >>

(***************************************************************************)
(* C15.  In a flash run, a SEAL frame on the wire carries the length and   *)
(* the CRC32 of the accepted WRIT payloads concatenated in order, which    *)
(* are the padded image, and - when there is a WRIT chunk - the address of *)
(* the first one.  With a transport that never fails the accepted WRIT     *)
(* chunks are all the WRIT frames written.                                 *)
(***************************************************************************)
C15_SealMatchesWrites ==
    (command = "flash" /\ Of(wire, {"SEAL"}) # << >>) =>
        LET seal == Of(wire, {"SEAL"})[1]
            ws == Of(acked, {"WRIT"})
            sent == Payload(ws, Len(ws))
        IN /\ seal.size = SumSizes(ws, Len(ws))
           /\ seal.size = Len(sent)
           /\ seal.data = crc32(sent)
           /\ ws # << >> => seal.addr = ws[1].addr
           /\ sent = Image.data
           /\ seal.addr = Get(Image.addr)
           /\ faults = 0 => Of(wire, {"WRIT"}) = ws

\* a three-byte file padded to four bytes, written in two chunks and sealed
C15_Witness ==
    /\ command = "flash"
    /\ Of(acked, {"SEAL"}) # << >>
    /\ Len(args.file.data) = 3 /\ Len(data) = 4
    /\ Len(Of(acked, {"WRIT"})) = 2

(***************************************************************************)
(* C16.  parse_integer returns the decimal value of a string of decimal    *)
(* digits, the hexadecimal value of the digits after a 0x prefix and the   *)
(* binary value of the digits after a 0b prefix.                           *)
(***************************************************************************)
AllDigits(s, base) == s # << >> /\ \A i \in 1..Len(s) : DigitVal(s[i]) < base

Rest(s) == SubSeq(s, 3, Len(s))

C16_PrefixSelectsBase ==
    (fn = "parse_integer" /\ fn_out # None /\ ~fn_in.isint) =>
        LET s == fn_in.str
            got == Get(fn_out)
        IN /\ AllDigits(s, 10) => got = Parsed(Value(s, 10))
           /\ (HasPrefix(s, "x") /\ AllDigits(Rest(s), 16)) =>
                  got = Parsed(Value(Rest(s), 16))
           /\ (HasPrefix(s, "b") /\ AllDigits(Rest(s), 2)) =>
                  got = Parsed(Value(Rest(s), 2))

\* what the code does instead: the decimal and the 0x case are as stated, and
\* a string that starts with 0b and goes on in binary digits is read in base
\* 16, the b being the digit eleven
C16_BinaryReadAsHex ==
    (fn = "parse_integer" /\ fn_out # None /\ ~fn_in.isint) =>
        LET s == fn_in.str
            got == Get(fn_out)
        IN /\ AllDigits(s, 10) => got = Parsed(Value(s, 10))
           /\ (HasPrefix(s, "x") /\ AllDigits(Rest(s), 16)) =>
                  got = Parsed(Value(Rest(s), 16))
           /\ (HasPrefix(s, "b") /\ AllDigits(Rest(s), 2)) =>
                  got = Parsed(Value(s, 16))

C16_Witness ==
    /\ fn = "parse_integer" /\ fn_out # None
    /\ fn_in = StrArg(<< "0", "b", "1", "1" >>)

(***************************************************************************)
(* C17.  In a flash run the ERAS chunks start at the load address of the   *)
(* image, follow one another without a gap and never add up to more than   *)
(* the least multiple of erase_size that is at least the image length.     *)
(* Once a WRIT frame is written they add up to exactly that, and every     *)
(* byte of every WRIT frame lies in a chunk the device erased.             *)
(***************************************************************************)
Erased(es, a) == \E k \in 1..Len(es) : es[k].addr <= a /\ a < es[k].addr + es[k].size

C17_WritesInsideErased ==
    command = "flash" =>
        LET es == Of(acked, {"ERAS"})
            ws == Of(wire, {"WRIT"})
            base == Get(Image.addr)
            erase_len == RoundUp(Len(Image.data), dev.erase_size)
        IN /\ \A k \in 1..Len(es) : es[k].addr = base + SumSizes(es, k - 1)
           /\ SumSizes(es, Len(es)) <= erase_len
           /\ pc = "erase_loop" => length = erase_len /\ addr = base
           /\ ws # << >> => SumSizes(es, Len(es)) = erase_len
           /\ \A k \in 1..Len(ws) :
                 /\ base <= ws[k].addr /\ ws[k].addr + ws[k].size <= base + erase_len
                 /\ \A a \in ws[k].addr..(ws[k].addr + ws[k].size - 1) : Erased(es, a)

\* an image of three bytes in sectors of two: four bytes erased, then two
\* WRIT chunks accepted
C17_Witness ==
    /\ command = "flash"
    /\ dev.erase_size = 2
    /\ Len(data) = 3
    /\ Len(Of(acked, {"WRIT"})) = 2
    /\ SumSizes(Of(acked, {"ERAS"}), Len(Of(acked, {"ERAS"}))) = 4

(***************************************************************************)
(* C18.  In the chunk loops of read and write the index is strictly larger *)
(* after each successful chunk, for every descriptor, max_data_len = 0     *)
(* included.  The program does not have this property: with max_data_len   *)
(* = 0 the chunk size is min(0, length - idx) = 0, the empty chunk         *)
(* succeeds and idx += 0 leaves the loop where it was.                     *)
(***************************************************************************)
ChunkSucceeds ==
    \/ pc = "crcc_xchg" /\ pc' = "read_loop"
    \/ pc = "write_xchg" /\ pc' = "write_loop"

C18_IndexAdvances == [][ChunkSucceeds => idx' > idx]_vars

\* what the code does: a descriptor with max_data_len > 0 makes every
\* successful chunk advance the index, by the chunk size and not past length
C18_AdvancesWhenCapPositive ==
    [][(ChunkSucceeds /\ Get(bl_info).max_data_len > 0) =>
           (idx' = idx + size /\ idx' > idx /\ idx' <= length)]_vars

\* the loop that does not end: a read of one byte with max_data_len = 0 has
\* sent MaxSpin empty READ commands, all accepted, and is where it started
C18_Witness ==
    /\ command = "read" /\ dev.max_data_len = 0
    /\ pc = "read_loop" /\ idx = 0 /\ length > 0
    /\ Len(Of(acked, {"READ"})) = MaxSpin

(***************************************************************************)
(* C19.  A session writes the INFO command at most once and enters the     *)
(* loop of info at most once.  An INFO exchange that did not deliver the   *)
(* descriptor - no marker before the deadline, a response of the wrong     *)
(* length, a transport error - is the last frame of the session, which     *)
(* has ended without a descriptor, by exit(1) from from_bytes or by the    *)
(* exception; it never ends by the failure branch of the loop.             *)
(***************************************************************************)
C19_InfoOnce ==
    LET infos == Of(wire, {"INFO"})
    IN /\ Len(infos) <= 1
       /\ Len(infos) <= info_idx /\ info_idx <= 1
       /\ bl_info # None => Of(acked, {"INFO"}) # << >>
       /\ (infos # << >> /\ Of(acked, {"INFO"}) = << >>) =>
              /\ wire[Len(wire)].cmd = "INFO"
              /\ pc = "done" /\ bl_info = None
              /\ \/ status = "exit1" /\ err = "InfoLength"
                 \/ status = "crash" /\ err \in {"ValueError", "SerialException"}

\* the INFO exchange timed out: the session is over, with one INFO written
C19_Witness ==
    /\ Len(Of(wire, {"INFO"})) = 1 /\ Of(acked, {"INFO"}) = << >>
    /\ pc = "done" /\ status = "crash" /\ err = "ValueError"
    /\ faults <= MaxFaults

(***************************************************************************)
(* C20.  A transport error in a chunk of read, write or erase - the open   *)
(* raises, or the exchange ends in a SerialException - ends the command    *)
(* as a crash in that very step: the attempt counter and the index stay as *)
(* they were, and no step follows the end of a command, so no chunk is     *)
(* attempted again and no further frame is written.  A transport error in  *)
(* an attempt of sync - the open or the write raises - leaves the command  *)
(* running: the attempt is counted and sync goes on with the next one.     *)
(***************************************************************************)
ChunkOpens == {"read_try", "crcc", "erase_try", "write_try"}
ChunkExchanges == {"read_xchg", "crcc_xchg", "erase_xchg", "write_xchg"}

\* the step is a transport error in a chunk
ChunkTransportError ==
    \/ pc \in ChunkOpens /\ faults' > faults
    \/ pc \in ChunkExchanges /\ err' = "SerialException"

\* the step is a transport error in an attempt of sync, before the reply
SyncTransportError ==
    \/ pc = "sync" /\ faults' > faults
    \/ pc = "sync_probe" /\ faults' > faults /\ wire' = wire

Tries(t) == SumSizes([k \in 1..Len(t) |-> [size |-> t[k]]], Len(t))

C20_TransportErrors ==
    [][/\ ChunkTransportError =>
             /\ pc' = "done" /\ status' = "crash" /\ err' = "SerialException"
             /\ attempt' = attempt /\ idx' = idx /\ acked' = acked
             /\ Len(wire') <= Len(wire) + 1
       /\ SyncTransportError =>
             /\ pc' = "sync" /\ status' = "running" /\ err' = err
             /\ Tries(sync_tries') = Tries(sync_tries) + 1
             /\ port' = None
       /\ pc # "done"]_vars

\* sync absorbed a transport error, a chunk failed once and was tried again,
\* and then a transport error ended the command
C20_Witness ==
    /\ command \in {"read", "write", "erase"}
    /\ pc = "done" /\ status = "crash" /\ err = "SerialException"
    /\ Tries(sync_tries) = 2 /\ Of(acked, {"INFO"}) # << >>
    /\ attempt = 1
    /\ faults = 3

====
